---------------------------- MODULE Spec2Model ----------------------------
(***************************************************************************)
(* A model of src/lib/parsers/index.ts: the extraction of a dependency     *)
(* tree and of the target frameworks from decoded .NET manifests           *)
(* (project.json, packages.config, project files).                         *)
(*                                                                         *)
(* Representation of JavaScript values.  A string is [string |-> chars],   *)
(* chars being the sequence of its characters (one-character strings), so  *)
(* that splitting, trimming and regular-expression matching are computed   *)
(* on the characters.  An array is [array |-> <<...>>], undefined and null *)
(* are the records Undefined and Null.  Any other record or function is an *)
(* object whose fields are the object's own properties; a property that is *)
(* not in the DOMAIN reads as undefined.  An object that keeps insertion   *)
(* order where the code depends on it (a dependencies map) is a sequence   *)
(* of [key, value] entries.  An exception thrown by the code is the value  *)
(* TypeError in place of the result.                                       *)
(***************************************************************************)
EXTENDS Integers, Sequences, FiniteSets, TLC

VARIABLES
  pc,                    \* "start" before the call, "done" after it
  dialect,               \* which entry point the caller selected
  manifestFile,          \* the decoded manifest handed to the entry point
  includeDev,            \* the includeDev argument
  propsMap,              \* the propsMap argument (project-file dialect)
  depTree,               \* the returned root (tree builders)
  packageReferenceDeps,  \* getDependencyTreeFromProjectFile's local
  referenceIncludeDeps,  \* getDependencyTreeFromProjectFile's local
  returned,              \* the value returned by a non-tree function
  depArg,                \* the dep argument of extractDependencyVersion
  threw                  \* TRUE when the call ended in an exception

vars == <<pc, dialect, manifestFile, includeDev, propsMap, depTree,
          packageReferenceDeps, referenceIncludeDeps, returned, depArg, threw>>

---------------------------------------------------------------------------
(* JavaScript values *)

Undefined == [undefined |-> TRUE]
Null == [null |-> TRUE]
Str(chars) == [string |-> chars]
Arr(items) == [array |-> items]
EmptyString == Str(<<>>)
TypeError == [threw |-> "TypeError"]

IsString(v) == "string" \in DOMAIN v
IsArray(v) == "array" \in DOMAIN v
IsUndefined(v) == "undefined" \in DOMAIN v
IsNull(v) == "null" \in DOMAIN v
IsThrown(v) == "threw" \in DOMAIN v
\* typeof v === 'object' for the values a decoded manifest holds
IsObject(v) == ~IsString(v) /\ ~IsUndefined(v)

\* obj.k (obj?.k): a property of a string, of undefined or of null, and a
\* property the object does not have, read as undefined
Prop(obj, k) ==
  IF IsString(obj) \/ IsUndefined(obj) \/ IsNull(obj) THEN Undefined
  ELSE IF k \in DOMAIN obj THEN obj[k] ELSE Undefined

\* arr?.[0]
First(v) ==
  IF IsArray(v) /\ Len(v.array) > 0 THEN v.array[1] ELSE Undefined

\* JavaScript truthiness of the values met here: undefined, null and ''
\* are falsy; a non-empty string, an array and an object are truthy
Truthy(v) ==
  /\ ~IsUndefined(v)
  /\ ~IsNull(v)
  /\ (IsString(v) => v.string # <<>>)

\* a || b
OrElse(a, b) == IF Truthy(a) THEN a ELSE b

\* a ?? b
Coalesce(a, b) == IF IsUndefined(a) \/ IsNull(a) THEN b ELSE a

\* lodash.isempty on a string, undefined or null
IsEmptyValue(v) ==
  IF IsString(v) THEN v.string = <<>> ELSE IsUndefined(v) \/ IsNull(v)

---------------------------------------------------------------------------
(* Strings as character sequences *)

RECURSIVE IndexFrom(_, _, _)
\* s.indexOf(c, i) on characters, 0 when c does not occur at or after i
IndexFrom(s, c, i) ==
  IF i > Len(s) THEN 0
  ELSE IF s[i] = c THEN i
  ELSE IndexFrom(s, c, i + 1)

RECURSIVE SplitFrom(_, _, _)
SplitFrom(s, sep, i) ==
  LET j == IndexFrom(s, sep, i)
  IN IF j = 0 THEN <<SubSeq(s, i, Len(s))>>
     ELSE <<SubSeq(s, i, j - 1)>> \o SplitFrom(s, sep, j + 1)

\* String.prototype.split(sep) for a one-character separator
Split(s, sep) == SplitFrom(s, sep, 1)

\* the characters \s and trim() take as white space, among those modelled
WhiteSpace == {" ", "\t"}

RECURSIVE TrimStart(_)
TrimStart(s) ==
  IF s # <<>> /\ Head(s) \in WhiteSpace THEN TrimStart(Tail(s)) ELSE s

RECURSIVE TrimEnd(_)
TrimEnd(s) ==
  IF s # <<>> /\ s[Len(s)] \in WhiteSpace
  THEN TrimEnd(SubSeq(s, 1, Len(s) - 1)) ELSE s

\* String.prototype.trim()
Trim(s) == TrimEnd(TrimStart(s))

---------------------------------------------------------------------------
(* Objects that keep insertion order: sequences of [key, value] entries.   *)
(* (No key of the model is an integer-like string, which JavaScript would  *)
(* order first.)                                                           *)

MapKeys(m) == [i \in DOMAIN m |-> m[i].key]
MapHas(m, k) == \E i \in DOMAIN m : m[i].key = k
MapGet(m, k) == m[CHOOSE i \in DOMAIN m : m[i].key = k].value

\* m[k] = v: an existing key keeps its position, a new key is appended
MapSet(m, k, v) ==
  IF MapHas(m, k)
  THEN [i \in DOMAIN m |->
          IF m[i].key = k THEN [key |-> k, value |-> v] ELSE m[i]]
  ELSE Append(m, [key |-> k, value |-> v])

RECURSIVE SpreadFrom(_, _, _)
SpreadFrom(acc, b, i) ==
  IF i > Len(b) THEN acc
  ELSE SpreadFrom(MapSet(acc, b[i].key, b[i].value), b, i + 1)

\* {...b, ...a}: the spreads in the other order
SpreadReversed(a, b) == SpreadFrom(b, a, 1)

\* {...a, ...b}
Spread(a, b) == SpreadFrom(a, b, 1)

---------------------------------------------------------------------------
(* Decoded XML.  An element without attributes and children decodes to a   *)
(* string, never to an empty object: the empty function stands for it.  A  *)
(* property group is a function from property names (character sequences, *)
(* they are compared with names parsed out of version strings) to the      *)
(* array of the values of the elements of that name.                       *)

EmptyTag == [k \in {} |-> Undefined]
\* typeof x === 'object' for an element of a decoded list
IsElementObject(x) == DOMAIN x # {}

\* manifestFile?.Project?.PropertyGroup ?? []
PropertyGroupsOf(manifest) ==
  LET groups == Prop(Prop(manifest, "Project"), "PropertyGroup")
  IN IF IsArray(groups) THEN groups.array ELSE <<>>

\* manifestFile?.Project?.ItemGroup ?? []
ManifestItemGroups(manifest) ==
  LET groups == Prop(Prop(manifest, "Project"), "ItemGroup")
  IN IF IsArray(groups) THEN groups.array ELSE <<>>

RECURSIVE PropertiesFrom(_, _, _)
PropertiesFrom(props, groups, i) ==
  IF i > Len(groups) THEN props
  ELSE LET group == groups[i]
           assigned == [k \in DOMAIN group \cup DOMAIN props |->
                          IF k \in DOMAIN group THEN First(group[k])
                          ELSE props[k]]
       IN PropertiesFrom(assigned, groups, i + 1)

\* getPropertiesMap: every key of every group, in document order, assigned
\* the first value of the key in the group (no property name of the model
\* holds a '.' or a '[', which lodash.set would read as a path)
getPropertiesMap(propsContents) ==
  PropertiesFrom(EmptyTag, PropertyGroupsOf(propsContents), 1)

\* VARS_MATCHER = /^\$\((.*?)\)/ : String.prototype.match's array of the
\* matched text and the captured name, or Null without a match.  The lazy
\* group ends at the first ')'.
VarsMatch(s) ==
  LET close == IndexFrom(s, ")", 3)
  IN IF Len(s) >= 3 /\ s[1] = "$" /\ s[2] = "(" /\ close # 0
     THEN Arr(<<Str(SubSeq(s, 1, close)), Str(SubSeq(s, 3, close - 1))>>)
     ELSE Null

\* {...getPropertiesMap(manifestFile), ...propsMap}: the external table
\* spread last
PropertyMapExternalLast(manifest, props) == props @@ getPropertiesMap(manifest)

\* {...propsMap, ...getPropertiesMap(manifestFile)}
PropertyMap(manifest, props) == getPropertiesMap(manifest) @@ props

extractDependencyVersion(dep, manifest, props) ==
  LET declared == OrElse(Prop(Prop(dep, "$"), "Version"), Prop(dep, "Version"))
      version == IF IsArray(declared) THEN First(declared) ELSE declared
      variableVersion == IF Truthy(version) THEN VarsMatch(version.string)
                         ELSE version
  IN IF ~Truthy(variableVersion) THEN version
     ELSE LET propertyName == variableVersion.array[2].string
              propertyMap == PropertyMap(manifest, props)
          IN IF propertyName \in DOMAIN propertyMap
             THEN Coalesce(propertyMap[propertyName], Null)
             ELSE Null

---------------------------------------------------------------------------
\* getConditionalFrameworks.  Its global pattern is, in order: the text
\* (TargetFramework)' ; \s? ; == ; \s? ; one space ; a quote ; the group,
\* any number of \w, \d or dot characters ; a quote.

TargetFrameworkLiteral ==
  <<"(", "T", "a", "r", "g", "e", "t", "F", "r", "a", "m", "e", "w", "o",
    "r", "k", ")", "'">>

\* \w, \d and \.
MonikerChars ==
  {"a", "b", "c", "d", "e", "f", "g", "h", "i", "j", "k", "l", "m", "n",
   "o", "p", "q", "r", "s", "t", "u", "v", "w", "x", "y", "z",
   "A", "B", "C", "D", "E", "F", "G", "H", "I", "J", "K", "L", "M", "N",
   "O", "P", "Q", "R", "S", "T", "U", "V", "W", "X", "Y", "Z",
   "0", "1", "2", "3", "4", "5", "6", "7", "8", "9", "_", "."}

HasAt(s, i, lit) ==
  /\ i + Len(lit) - 1 <= Len(s)
  /\ SubSeq(s, i, i + Len(lit) - 1) = lit

RECURSIVE RunEnd(_, _)
\* the index after the longest run of moniker characters that starts at i
RunEnd(s, i) ==
  IF i <= Len(s) /\ s[i] \in MonikerChars THEN RunEnd(s, i + 1) ELSE i

\* the quoted group and the closing quote, the opening quote being at q:
\* the index after the closing quote, or 0.  (A shorter run than the
\* longest is followed by a moniker character, never by the quote.)
QuotedEnd(s, q) ==
  IF HasAt(s, q, <<"'">>) /\ HasAt(s, RunEnd(s, q + 1), <<"'">>)
  THEN RunEnd(s, q + 1) + 1 ELSE 0

\* a match of the pattern that starts at i: [from, to) and the group, or
\* Null.  Each \s? first takes a white-space character when there is one
\* and gives it back when the rest then fails.
ConditionMatchAt(s, i) ==
  LET p == i + Len(TargetFrameworkLiteral)
      eq == IF HasAt(s, p, <<"=", "=">>) THEN p
            ELSE IF p <= Len(s) /\ s[p] \in WhiteSpace
                    /\ HasAt(s, p + 1, <<"=", "=">>) THEN p + 1
            ELSE 0
      r == eq + 2
      taken == IF r <= Len(s) /\ s[r] \in WhiteSpace /\ HasAt(s, r + 1, <<" ">>)
               THEN QuotedEnd(s, r + 2) ELSE 0
      given == IF HasAt(s, r, <<" ">>) THEN QuotedEnd(s, r + 1) ELSE 0
      to == IF taken # 0 THEN taken ELSE given
      quote == IF taken # 0 THEN r + 2 ELSE r + 1
  IN IF HasAt(s, i, TargetFrameworkLiteral) /\ eq # 0 /\ to # 0
     THEN [to |-> to, group |-> SubSeq(s, quote + 1, to - 2)]
     ELSE Null

RECURSIVE ConditionExec(_, _)
\* regexp.exec(condition) with lastIndex = from - 1: the leftmost match at
\* or after from, or Null
ConditionExec(s, from) ==
  IF from > Len(s) THEN Null
  ELSE IF ~IsNull(ConditionMatchAt(s, from)) THEN ConditionMatchAt(s, from)
  ELSE ConditionExec(s, from + 1)

RECURSIVE ConditionLoop(_, _, _)
ConditionLoop(s, from, frameworks) ==
  LET match == ConditionExec(s, from)
  IN IF IsNull(match) THEN frameworks
     ELSE ConditionLoop(s, match.to, Append(frameworks, Str(match.group)))

\* the pattern without its g flag: exec finds the first match only
getConditionalFrameworksFirstMatch(condition) ==
  LET match == ConditionExec(condition.string, 1)
  IN IF IsNull(match) THEN <<>> ELSE <<Str(match.group)>>

getConditionalFrameworks(condition) ==
  ConditionLoop(condition.string, 1, <<>>)

\* packageList?.$?.Condition ?? false ? getConditionalFrameworks(...) : []
GroupTargetFrameworks(packageList) ==
  LET condition == Prop(Prop(packageList, "$"), "Condition")
  IN IF Truthy(condition) THEN getConditionalFrameworks(condition) ELSE <<>>

---------------------------------------------------------------------------
(* Nodes and extraction results *)

\* DepType
DepTypeOf(isDev) == IF isDev THEN "dev" ELSE "prod"

\* the property key a value is converted to: String(value)
KeyOf(v) ==
  IF IsString(v) THEN v.string
  ELSE <<"u", "n", "d", "e", "f", "i", "n", "e", "d">>

\* depSubTree.targetFrameworks = targetFrameworks, when it has a length
WithTargetFrameworks(depSubTree, targetFrameworks) ==
  IF Len(targetFrameworks) > 0
  THEN depSubTree @@ [targetFrameworks |-> targetFrameworks]
  ELSE depSubTree

\* shared by buildSubTreeFromPackageReference and ...FromReferenceInclude
BuildSubTree(name, version, isDev, targetFrameworks) ==
  IF ~IsEmptyValue(version)
  THEN WithTargetFrameworks(
         [depType |-> DepTypeOf(isDev), dependencies |-> <<>>,
          name |-> name, version |-> version], targetFrameworks)
  ELSE [name |-> name, withoutVersion |-> TRUE]

buildSubTreeFromPackageReference(dep, isDev, manifest, targetFrameworks, props) ==
  BuildSubTree(Prop(Prop(dep, "$"), "Include"),
               OrElse(extractDependencyVersion(dep, manifest, props), EmptyString),
               isDev, targetFrameworks)

buildSubTreeFromReferenceInclude(dep, isDev, manifest, targetFrameworks, props) ==
  BuildSubTree(Prop(dep, "name"),
               OrElse(extractDependencyVersion(dep, manifest, props), EmptyString),
               isDev, targetFrameworks)

\* the skip left out: every declaration is emitted
SkipsDevDependencyNever(isDev, dev) == FALSE

\* if (isDev && !includeDev) continue;
SkipsDevDependency(isDev, dev) == isDev /\ ~dev

\* { dependencies: {}, hasDevDependencies: false }
EmptyResult == [dependencies |-> <<>>, hasDevDependencies |-> FALSE]

\* dependenciesResult.dependenciesWithUnknownVersions =
\*   dependenciesResult.dependenciesWithUnknownVersions || []; ...push(name)
PushUnknownVersion(dependenciesResult, name) ==
  IF "dependenciesWithUnknownVersions" \in DOMAIN dependenciesResult
  THEN [dependenciesResult EXCEPT
          !.dependenciesWithUnknownVersions = Append(@, name)]
  ELSE dependenciesResult @@ [dependenciesWithUnknownVersions |-> <<name>>]

\* the tail of both item loops: the sub-tree goes to the unknown-version
\* list or into the dependencies map
Record(dependenciesResult, depName, subDep) ==
  IF "withoutVersion" \in DOMAIN subDep
  THEN PushUnknownVersion(dependenciesResult, subDep.name)
  ELSE [dependenciesResult EXCEPT
          !.dependencies = MapSet(@, KeyOf(depName), subDep)]

---------------------------------------------------------------------------
(* PackageReference extraction *)

RECURSIVE PackageReferenceLoop(_, _, _, _, _, _, _)
PackageReferenceLoop(items, i, targetFrameworks, manifest, dev, dependenciesResult, props) ==
  IF i > Len(items) THEN dependenciesResult
  ELSE
    LET dep == items[i]
        depName == Prop(Prop(dep, "$"), "Include")
        isDev == Truthy(Prop(Prop(dep, "$"), "developmentDependency"))
        flagged == [dependenciesResult EXCEPT
                      !.hasDevDependencies = @ \/ isDev]
        subDep == buildSubTreeFromPackageReference(
                    dep, isDev, manifest, targetFrameworks, props)
    IN IF IsUndefined(Prop(dep, "$")) THEN TypeError
       ELSE IF ~Truthy(depName)
       THEN PackageReferenceLoop(items, i + 1, targetFrameworks, manifest,
                                 dev, dependenciesResult, props)
       ELSE IF SkipsDevDependency(isDev, dev)
       THEN PackageReferenceLoop(items, i + 1, targetFrameworks, manifest,
                                 dev, flagged, props)
       ELSE PackageReferenceLoop(items, i + 1, targetFrameworks, manifest,
                                 dev, Record(flagged, depName, subDep), props)

processItemGroupForPackageReference(packageList, manifest, dev, dependenciesResult, props) ==
  PackageReferenceLoop(packageList.PackageReference.array, 1,
                       GroupTargetFrameworks(packageList), manifest, dev,
                       dependenciesResult, props)

RECURSIVE PackageGroupsLoop(_, _, _, _, _, _)
PackageGroupsLoop(groups, i, manifest, dev, dependenciesResult, props) ==
  IF i > Len(groups) \/ IsThrown(dependenciesResult) THEN dependenciesResult
  ELSE IF IsElementObject(groups[i]) /\ "PackageReference" \in DOMAIN groups[i]
  THEN PackageGroupsLoop(groups, i + 1, manifest, dev,
         processItemGroupForPackageReference(
           groups[i], manifest, dev, dependenciesResult, props), props)
  ELSE PackageGroupsLoop(groups, i + 1, manifest, dev, dependenciesResult, props)

getDependenciesFromPackageReference(manifest, dev, props) ==
  PackageGroupsLoop(ManifestItemGroups(manifest), 1, manifest, dev, EmptyResult, props)

---------------------------------------------------------------------------
(* Reference-Include extraction *)

VersionKey == <<"V", "e", "r", "s", "i", "o", "n">>

RECURSIVE DepInfoFrom(_, _, _)
\* for (const itemValue of depInfoArray) depInfo[pair[0]] = pair[1].  Of the
\* bag only Version and name are ever read, so only they are kept.
DepInfoFrom(depInfo, depInfoArray, i) ==
  IF i > Len(depInfoArray) THEN depInfo
  ELSE LET propertyValuePair == Split(depInfoArray[i], "=")
           value == IF Len(propertyValuePair) >= 2
                    THEN Str(propertyValuePair[2]) ELSE Undefined
       IN IF propertyValuePair[1] = VersionKey
          THEN DepInfoFrom([Version |-> value], depInfoArray, i + 1)
          ELSE DepInfoFrom(depInfo, depInfoArray, i + 1)

RECURSIVE ReferenceLoop(_, _, _, _, _, _, _)
ReferenceLoop(items, i, targetFrameworks, manifest, dev, dependenciesResult, props) ==
  IF i > Len(items) THEN dependenciesResult
  ELSE
    LET item == items[i]
        include == Prop(Prop(item, "$"), "Include")
        split == Split(include.string, ",")
        propertiesList == [k \in DOMAIN split |-> Trim(split[k])]
        depName == Str(Head(propertiesList))
        depInfoArray == Tail(propertiesList)
        isDev == FALSE
        flagged == [dependenciesResult EXCEPT
                      !.hasDevDependencies = @ \/ isDev]
        \* depInfo.name = depName, after the loop over depInfoArray
        depInfo == [name |-> depName] @@ DepInfoFrom(EmptyTag, depInfoArray, 1)
        subDep == buildSubTreeFromReferenceInclude(
                    depInfo, isDev, manifest, targetFrameworks, props)
    IN IF ~IsString(include) THEN TypeError
       ELSE IF ~Truthy(depName)
       THEN ReferenceLoop(items, i + 1, targetFrameworks, manifest, dev,
                          dependenciesResult, props)
       ELSE IF SkipsDevDependency(isDev, dev)
       THEN ReferenceLoop(items, i + 1, targetFrameworks, manifest, dev,
                          flagged, props)
       ELSE ReferenceLoop(items, i + 1, targetFrameworks, manifest, dev,
                          Record(flagged, depName, subDep), props)

processItemGroupForReferenceInclude(packageList, manifest, dev, dependenciesResult, props) ==
  ReferenceLoop(packageList.Reference.array, 1,
                GroupTargetFrameworks(packageList), manifest, dev,
                dependenciesResult, props)

\* .find((itemGroup) => typeof itemGroup === 'object' && 'Reference' in itemGroup)
ReferenceGroups(manifest) ==
  SelectSeq(ManifestItemGroups(manifest),
            LAMBDA g : IsElementObject(g) /\ "Reference" \in DOMAIN g)

getDependenciesFromReferenceInclude(manifest, dev, props) ==
  IF ReferenceGroups(manifest) = <<>> THEN EmptyResult
  ELSE processItemGroupForReferenceInclude(
         Head(ReferenceGroups(manifest)), manifest, dev, EmptyResult, props)

---------------------------------------------------------------------------
(* getDependencyTreeFromProjectFile *)

PackageIdKey == <<"P", "a", "c", "k", "a", "g", "e", "I", "d">>
AssemblyNameKey == <<"A", "s", "s", "e", "m", "b", "l", "y", "N", "a", "m", "e">>

\* group[key] of a property group
GroupProp(group, key) == IF key \in DOMAIN group THEN group[key] ELSE Undefined

RECURSIVE FindGroupWith(_, _, _)
\* groups.find((propertyGroup) => k1 in propertyGroup || k2 in ...) || {} :
\* [found |-> the group or {}], or TypeError, the in operator throwing on
\* a group that is a string
FindGroupWith(groups, keys, i) ==
  IF i > Len(groups) THEN [found |-> EmptyTag]
  ELSE IF ~IsElementObject(groups[i]) THEN TypeError
  ELSE IF DOMAIN groups[i] \cap keys # {} THEN [found |-> groups[i]]
  ELSE FindGroupWith(groups, keys, i + 1)

ProjectName(nameProperty) ==
  OrElse(First(GroupProp(nameProperty, PackageIdKey)),
         OrElse(First(GroupProp(nameProperty, AssemblyNameKey)), EmptyString))

\* lines 157-171: the merged root
MergeUnknownVersions(tree, packageReference, referenceInclude) ==
  LET afterPackageReference ==
        IF "dependenciesWithUnknownVersions" \in DOMAIN packageReference
        THEN [dependenciesWithUnknownVersions |->
                packageReference.dependenciesWithUnknownVersions] @@ tree
        ELSE tree
  IN IF "dependenciesWithUnknownVersions" \in DOMAIN referenceInclude
     THEN [dependenciesWithUnknownVersions |->
             referenceInclude.dependenciesWithUnknownVersions]
          @@ afterPackageReference
     ELSE afterPackageReference

MergedTree(name, packageReference, referenceInclude) ==
  MergeUnknownVersions(
    [dependencies |-> Spread(referenceInclude.dependencies,
                             packageReference.dependencies),
     hasDevDependencies |-> packageReference.hasDevDependencies
                              \/ referenceInclude.hasDevDependencies,
     name |-> name,
     version |-> EmptyString],
    packageReference, referenceInclude)

\* the whole call: its locals and its result, or what it threw.  A local
\* the call did not reach is Undefined.
getDependencyTreeFromProjectFile(manifest, dev, props) ==
  LET nameProperty ==
        FindGroupWith(PropertyGroupsOf(manifest),
                      {PackageIdKey, AssemblyNameKey}, 1)
      packageReference == getDependenciesFromPackageReference(manifest, dev, props)
      referenceInclude == getDependenciesFromReferenceInclude(manifest, dev, props)
  IN IF IsThrown(nameProperty)
     THEN [threw |-> TRUE, packageReferenceDeps |-> Undefined,
           referenceIncludeDeps |-> Undefined, depTree |-> Undefined]
     ELSE IF IsThrown(packageReference)
     THEN [threw |-> TRUE, packageReferenceDeps |-> Undefined,
           referenceIncludeDeps |-> Undefined, depTree |-> Undefined]
     ELSE IF IsThrown(referenceInclude)
     THEN [threw |-> TRUE, packageReferenceDeps |-> packageReference,
           referenceIncludeDeps |-> Undefined, depTree |-> Undefined]
     ELSE [threw |-> FALSE, packageReferenceDeps |-> packageReference,
           referenceIncludeDeps |-> referenceInclude,
           depTree |-> MergedTree(ProjectName(nameProperty.found),
                                  packageReference, referenceInclude)]

---------------------------------------------------------------------------
(* getDependencyTreeFromProjectJson, getDependencyTreeFromPackagesConfig *)

\* { dependencies: {}, hasDevDependencies: false, name: '', version: '' }
EmptyTree ==
  [dependencies |-> <<>>, hasDevDependencies |-> FALSE,
   name |-> EmptyString, version |-> EmptyString]

BuildType == Str(<<"b", "u", "i", "l", "d">>)

buildSubTreeFromProjectJson(name, version, isDev) ==
  [depType |-> DepTypeOf(isDev), dependencies |-> <<>>,
   name |-> name, version |-> version]

RECURSIVE ProjectJsonLoop(_, _, _, _)
\* for (const depName in manifestFile.dependencies): the entries of the
\* dependencies object in its key order
ProjectJsonLoop(entries, i, dev, tree) ==
  IF i > Len(entries) THEN tree
  ELSE
    LET depName == entries[i].key
        depValue == entries[i].value
        version == OrElse(Prop(depValue, "version"), depValue)
        isDev == Prop(depValue, "type") = BuildType
        flagged == [tree EXCEPT !.hasDevDependencies = @ \/ isDev]
    IN IF SkipsDevDependency(isDev, dev)
       THEN ProjectJsonLoop(entries, i + 1, dev, flagged)
       ELSE ProjectJsonLoop(entries, i + 1, dev,
              [flagged EXCEPT !.dependencies =
                 MapSet(@, depName,
                        buildSubTreeFromProjectJson(Str(depName), version, isDev))])

\* manifest.dependencies is [entries |-> the key/value entries in key order]
getDependencyTreeFromProjectJson(manifest, dev) ==
  LET dependencies == Prop(manifest, "dependencies")
  IN IF IsUndefined(dependencies) THEN EmptyTree
     ELSE ProjectJsonLoop(dependencies.entries, 1, dev, EmptyTree)

buildSubTreeFromPackagesConfig(dep, isDev) ==
  LET depSubTree == [depType |-> DepTypeOf(isDev), dependencies |-> <<>>,
                     name |-> Prop(Prop(dep, "$"), "id"),
                     version |-> Prop(Prop(dep, "$"), "version")]
      targetFramework == Prop(Prop(dep, "$"), "targetFramework")
  IN IF Truthy(targetFramework)
     THEN depSubTree @@ [targetFrameworks |-> <<targetFramework>>]
     ELSE depSubTree

RECURSIVE PackagesConfigLoop(_, _, _, _)
PackagesConfigLoop(packageList, i, dev, tree) ==
  IF i > Len(packageList) THEN tree
  ELSE
    LET dep == packageList[i]
        depName == Prop(Prop(dep, "$"), "id")
        isDev == Truthy(Prop(Prop(dep, "$"), "developmentDependency"))
        flagged == [tree EXCEPT !.hasDevDependencies = @ \/ isDev]
    IN IF IsUndefined(Prop(dep, "$")) THEN TypeError
       ELSE IF SkipsDevDependency(isDev, dev)
       THEN PackagesConfigLoop(packageList, i + 1, dev, flagged)
       ELSE PackagesConfigLoop(packageList, i + 1, dev,
              [flagged EXCEPT !.dependencies =
                 MapSet(@, KeyOf(depName),
                        buildSubTreeFromPackagesConfig(dep, isDev))])

\* manifestFile?.packages?.package ?? []
PackageListOf(manifest) ==
  LET packageList == Prop(Prop(manifest, "packages"), "package")
  IN IF IsArray(packageList) THEN packageList.array ELSE <<>>

getDependencyTreeFromPackagesConfig(manifest, dev) ==
  PackagesConfigLoop(PackageListOf(manifest), 1, dev, EmptyTree)

---------------------------------------------------------------------------
(* getTargetFrameworksFromProjectFile *)

TargetFrameworkKey ==
  <<"T", "a", "r", "g", "e", "t", "F", "r", "a", "m", "e", "w", "o", "r", "k">>
TargetFrameworksKey == TargetFrameworkKey \o <<"s">>
TargetFrameworkVersionKey ==
  TargetFrameworkKey \o <<"V", "e", "r", "s", "i", "o", "n">>
NetFrameworkPrefix ==
  <<".", "N", "E", "T", "F", "r", "a", "m", "e", "w", "o", "r", "k", ",",
    "V", "e", "r", "s", "i", "o", "n", "=">>

RECURSIVE Uniq(_)
\* lodash.uniq on strings: the first occurrence of each value, in order
Uniq(seq) ==
  IF seq = <<>> THEN <<>>
  ELSE LET init == Uniq(SubSeq(seq, 1, Len(seq) - 1))
           last == seq[Len(seq)]
       IN IF \E i \in DOMAIN init : init[i] = last THEN init
          ELSE Append(init, last)

\* rawTargetFrameworks.split(';').filter((x) => !_isEmpty(x)), as strings
ParseTargetFrameworks(raw) ==
  LET parts == SelectSeq(Split(raw.string, ";"), LAMBDA x : x # <<>>)
  IN [i \in DOMAIN parts |-> Str(parts[i])]

RECURSIVE TargetFrameworksLoop(_, _, _)
\* lines 431-435: an item that is an object is read through its _ field;
\* the array of the frameworks, or TypeError
TargetFrameworksLoop(items, i, result) ==
  IF i > Len(items) THEN Arr(result)
  ELSE LET item == items[i]
           rawTargetFrameworks == IF IsString(item) THEN item
                                  ELSE Prop(item, "_")
       IN IF ~IsString(rawTargetFrameworks) THEN TypeError
          ELSE TargetFrameworksLoop(items, i + 1,
                 result \o ParseTargetFrameworks(rawTargetFrameworks))

\* the array returned, or TypeError
getTargetFrameworksFromProjectFile(manifest) ==
  LET find ==
        FindGroupWith(PropertyGroupsOf(manifest),
          {TargetFrameworkKey, TargetFrameworksKey, TargetFrameworkVersionKey}, 1)
      propertyList == find.found
      plural == GroupProp(propertyList, TargetFrameworksKey)
      fromPlural == IF Truthy(plural)
                    THEN TargetFrameworksLoop(plural.array, 1, <<>>)
                    ELSE Arr(<<>>)
      version == GroupProp(propertyList, TargetFrameworkVersionKey)
      withVersion == IF Truthy(version)
                     THEN Append(fromPlural.array,
                                 Str(NetFrameworkPrefix \o First(version).string))
                     ELSE fromPlural.array
      singular == GroupProp(propertyList, TargetFrameworkKey)
      withSingular == IF Truthy(singular) THEN withVersion \o singular.array
                      ELSE withVersion
  IN IF IsThrown(find) THEN TypeError
     ELSE IF DOMAIN propertyList = {} THEN Arr(<<>>)
     ELSE IF IsThrown(fromPlural) THEN TypeError
     ELSE Arr(Uniq(withSingular))

---------------------------------------------------------------------------
(* The manifests and arguments the calls are made with *)

MaxItems == 3        \* declarations in one manifest
MaxClauses == 2      \* clauses of an item group's Condition
MaxVersionLen == 4   \* characters of a declared version
MaxFrameworksLen == 3 \* characters of a TargetFrameworks value

NameX == Str(<<"X">>)
NameY == Str(<<"Y">>)
NameZ == Str(<<"Z">>)
Version10 == Str(<<"1", ".", "0">>)
Version20 == Str(<<"2", ".", "0">>)
Version30 == Str(<<"3", ".", "0">>)
Version40 == Str(<<"4", ".", "0">>)
Version50 == Str(<<"5", ".", "0">>)
\* $(V): a reference to the property V
VersionOfV == Str(<<"$", "(", "V", ")">>)
PropertyV == <<"V">>
True == Str(<<"t", "r", "u", "e">>)

\* the field k with value v, or nothing when v is undefined
Opt(k, v) == IF IsUndefined(v) THEN EmptyTag ELSE (k :> v)

\* the sequences over S of lengths lo..hi
SeqsOf(S, lo, hi) == UNION {[1..k -> S] : k \in lo..hi}

\* <PackageReference Include=.. Version=.. developmentDependency=.. />
PackageReferenceItem(include, version, dev) ==
  "$" :> (Opt("Include", include) @@ Opt("Version", version)
            @@ Opt("developmentDependency", dev))

\* <PackageReference Update="X" Version="1.0" developmentDependency="true" />
UpdateOnlyItem ==
  "$" :> [Update |-> NameX, Version |-> Version10, developmentDependency |-> True]

\* <PackageReference Include="X"><Version>2.0</Version></PackageReference>
ChildVersionItem == ("$" :> [Include |-> NameX]) @@ [Version |-> Arr(<<Version20>>)]

\* <Reference Include=".." />
ReferenceItem(include) == "$" :> [Include |-> include]

\* <Reference HintPath="Z" />, a Reference without Include
NoIncludeReferenceItem == "$" :> [HintPath |-> NameZ]

CommaVersionEquals == <<",", " ", "V", "e", "r", "s", "i", "o", "n", "=">>
\* "X, Version=2.0"
IncludeXVersion20 == Str(NameX.string \o CommaVersionEquals \o Version20.string)
\* "Y"
IncludeY == NameY
\* "Z, Version=$(V), Culture=n"
IncludeZVersionOfV ==
  Str(NameZ.string \o CommaVersionEquals \o VersionOfV.string
        \o <<",", " ", "C", "u", "l", "t", "u", "r", "e", "=", "n">>)
\* ", Version=1.0": the first segment is empty
IncludeNoName == Str(CommaVersionEquals \o Version10.string)

\* an item group: its Condition (or undefined), its PackageReference items
\* and its Reference items; without any of them, the empty element
ItemGroup(condition, packageReferences, references) ==
  (IF IsUndefined(condition) THEN EmptyTag ELSE "$" :> [Condition |-> condition])
  @@ (IF packageReferences = <<>> THEN EmptyTag
      ELSE [PackageReference |-> Arr(packageReferences)])
  @@ (IF references = <<>> THEN EmptyTag ELSE [Reference |-> Arr(references)])

\* the item groups without Condition that hold exactly n items
ItemGroupsOf(packageReferences, references, n) ==
  UNION {{ItemGroup(Undefined, p, r) :
            p \in [1..k -> packageReferences],
            r \in [1..(n - k) -> references]} : k \in 0..n}

RECURSIVE ItemGroupSeqs(_, _, _)
\* the sequences of non-empty item groups that hold at most n items together
ItemGroupSeqs(packageReferences, references, n) ==
  {<<>>} \cup
  UNION {{<<g>> \o rest :
            g \in ItemGroupsOf(packageReferences, references, k),
            rest \in ItemGroupSeqs(packageReferences, references, n - k)} :
         k \in 1..n}

\* a project file: its property groups and its item groups (no element
\* for an empty sequence)
ProjectFile(propertyGroups, itemGroups) ==
  [Project |->
     (IF propertyGroups = <<>> THEN EmptyTag
      ELSE [PropertyGroup |-> Arr(propertyGroups)])
     @@ (IF itemGroups = <<>> THEN EmptyTag
         ELSE [ItemGroup |-> Arr(itemGroups)])]

\* <PropertyGroup><V>3.0</V></PropertyGroup>
GroupDefiningV == PropertyV :> Arr(<<Version30>>)
\* <PropertyGroup><PackageId>X</PackageId><AssemblyName>Y</AssemblyName>..
GroupNamingProject ==
  (PackageIdKey :> Arr(<<NameX>>)) @@ (AssemblyNameKey :> Arr(<<NameY>>))
NoProps == EmptyTag
PropsDefiningV == PropertyV :> Version40

\* Project files that declare X and Y by PackageReference and X, Y and Z by
\* Reference, with literal, variable and missing versions
VersionedPackageReferences ==
  {PackageReferenceItem(n, v, Undefined) :
     n \in {NameX, NameY}, v \in {Version10, VersionOfV}}
VersionedReferences ==
  {ReferenceItem(i) : i \in {IncludeXVersion20, IncludeY, IncludeZVersionOfV}}
VersionedProjectFiles ==
  {ProjectFile(pg, ig) :
     pg \in {<<>>, <<GroupDefiningV>>},
     ig \in ItemGroupSeqs(VersionedPackageReferences, VersionedReferences, MaxItems)}

\* Project files with declarations flagged as development dependencies
DevPackageReferences ==
  {PackageReferenceItem(n, v, True) :
     n \in {NameX, NameY}, v \in {Version10, VersionOfV}}
  \cup {PackageReferenceItem(NameX, Version50, Undefined)}
DevProjectFiles ==
  {ProjectFile(pg, ig) :
     pg \in {<<>>, <<GroupDefiningV>>},
     ig \in ItemGroupSeqs(DevPackageReferences,
                          {ReferenceItem(IncludeXVersion20)}, MaxItems)}

\* Project files with items that have no Include: an Update-only
\* PackageReference, items without attributes, a Reference without Include
\* or with an empty first segment
SkippedPackageReferences ==
  {UpdateOnlyItem, EmptyTag, ChildVersionItem,
   PackageReferenceItem(NameY, Version10, Undefined)}
SkippedReferences ==
  {NoIncludeReferenceItem, ReferenceItem(IncludeNoName), ReferenceItem(IncludeY),
   ReferenceItem(IncludeXVersion20)}
SkippedProjectFiles ==
  {ProjectFile(<<>>, ig) :
     ig \in ItemGroupSeqs(SkippedPackageReferences, SkippedReferences, MaxItems)}

\* Conditions: clauses joined by " Or ".  A clause compares TargetFramework
\* with a moniker, with or without the space the pattern asks for before
\* the quoted moniker, or compares another property.
Net472 == <<"n", "e", "t", "4", "7", "2">>
NetStandard20 ==
  <<"n", "e", "t", "s", "t", "a", "n", "d", "a", "r", "d", "2", ".", "0">>
Clauses ==
  {[kind |-> "spaced", moniker |-> Net472],
   [kind |-> "spaced", moniker |-> NetStandard20],
   [kind |-> "unspaced", moniker |-> Net472],
   [kind |-> "other", moniker |-> Net472]}

\* '$(TargetFramework)' == 'net472', '$(TargetFramework)'=='net472',
\* '$(Configuration)' == 'net472'
ClauseText(clause) ==
  CASE clause.kind = "spaced" ->
         <<"'", "$">> \o TargetFrameworkLiteral
           \o <<" ", "=", "=", " ", "'">> \o clause.moniker \o <<"'">>
    [] clause.kind = "unspaced" ->
         <<"'", "$">> \o TargetFrameworkLiteral
           \o <<"=", "=", "'">> \o clause.moniker \o <<"'">>
    [] OTHER ->
         <<"'", "$", "(", "C", "o", "n", "f", "i", "g", "u", "r", "a", "t",
           "i", "o", "n", ")", "'", " ", "=", "=", " ", "'">>
           \o clause.moniker \o <<"'">>

RECURSIVE ConditionText(_)
ConditionText(clauses) ==
  IF Len(clauses) = 1 THEN ClauseText(clauses[1])
  ELSE ClauseText(clauses[1]) \o <<" ", "O", "r", " ">>
         \o ConditionText(Tail(clauses))

ClauseLists == SeqsOf(Clauses, 1, MaxClauses)
Conditions ==
  {Undefined, EmptyString} \cup {Str(ConditionText(c)) : c \in ClauseLists}

\* Project files of one or two item groups with a Condition, each with one
\* PackageReference; a second group has a Condition of at most one clause
ConditionalItemGroupsOf(conditions) ==
  {ItemGroup(c, <<p>>, <<>>) :
     c \in conditions,
     p \in {PackageReferenceItem(n, Version10, Undefined) : n \in {NameX, NameY}}
             \cup {PackageReferenceItem(NameX, VersionOfV, Undefined)}}
ConditionalItemGroups == ConditionalItemGroupsOf(Conditions)
SingleClauseItemGroups ==
  ConditionalItemGroupsOf(
    {Undefined, EmptyString} \cup {Str(ClauseText(c)) : c \in Clauses})
ConditionalProjectFiles ==
  {ProjectFile(<<>>, <<g>>) : g \in ConditionalItemGroups}
  \cup {ProjectFile(<<>>, <<g, h>>) :
          g \in ConditionalItemGroups, h \in SingleClauseItemGroups}

\* Project files without any declaration: sections missing, empty
\* elements, item groups of other items only
CompileOnlyItemGroup == [Compile |-> Arr(<<"$" :> [Include |-> NameX]>>)]
ConditionOnlyItemGroup == "$" :> [Condition |-> Str(ClauseText(
                                   [kind |-> "spaced", moniker |-> Net472]))]
EmptyProjectFiles ==
  {[Other |-> EmptyTag]}
  \cup {ProjectFile(pg, ig) :
          pg \in {<<>>, <<EmptyTag>>, <<GroupDefiningV>>, <<GroupNamingProject>>,
                  <<GroupDefiningV, GroupNamingProject>>},
          ig \in {<<>>, <<EmptyTag>>, <<CompileOnlyItemGroup>>,
                  <<ConditionOnlyItemGroup>>, <<EmptyTag, CompileOnlyItemGroup>>}}

\* project.json: a dependencies object of at most MaxItems keys, each value
\* a version string or an object with a version and an optional type
PlatformType == Str(<<"p", "l", "a", "t", "f", "o", "r", "m">>)
ProjectJsonValues ==
  {Version10, [version |-> Version20],
   [version |-> Version30, type |-> BuildType],
   [version |-> Version40, type |-> PlatformType]}
ProjectJsonEntries ==
  {e \in SeqsOf([key : {NameX.string, NameY.string, NameZ.string},
                 value : ProjectJsonValues], 0, MaxItems) :
     \A i, j \in DOMAIN e : e[i].key = e[j].key => i = j}
ProjectJsonManifests ==
  {EmptyTag, [frameworks |-> EmptyTag]}
  \cup {[dependencies |-> [entries |-> e]] : e \in ProjectJsonEntries}

\* packages.config: at most MaxItems package elements
Net45 == Str(<<"n", "e", "t", "4", "5">>)
PackageItems ==
  {"$" :> ([id |-> n, version |-> Version10]
             @@ Opt("developmentDependency", d) @@ Opt("targetFramework", f)) :
     n \in {NameX, NameY}, d \in {Undefined, True}, f \in {Undefined, Net45}}
PackagesConfigManifests ==
  {EmptyTag, [packages |-> EmptyTag]}
  \cup {[packages |-> [package |-> Arr(l)]] : l \in SeqsOf(PackageItems, 1, MaxItems)}

\* extractDependencyVersion: a dep whose declared version is any string of
\* at most MaxVersionLen of these characters, as an attribute, as a child
\* element or as the Version of a parsed Reference Include
VersionChars == {"$", "(", ")", "V", "1"}
DeclaredVersions == {Str(s) : s \in SeqsOf(VersionChars, 0, MaxVersionLen)}
VersionDeps ==
  {PackageReferenceItem(NameX, v, Undefined) : v \in DeclaredVersions}
  \cup {("$" :> [Include |-> NameX]) @@ [Version |-> Arr(<<v>>)] :
          v \in DeclaredVersions}
  \cup {[name |-> NameX, Version |-> v] : v \in DeclaredVersions}
  \cup {PackageReferenceItem(NameX, Undefined, Undefined), [name |-> NameX]}
\* <PropertyGroup><V>5.0</V></PropertyGroup>
GroupRedefiningV == PropertyV :> Arr(<<Version50>>)
\* <PropertyGroup><V>3.0</V><V>5.0</V></PropertyGroup>
GroupDefiningVTwice == PropertyV :> Arr(<<Version30, Version50>>)
VersionPropertyGroups ==
  {<<>>, <<GroupDefiningV>>, <<GroupDefiningV, GroupRedefiningV>>,
   <<GroupRedefiningV, GroupDefiningV>>, <<EmptyTag, GroupDefiningV>>,
   <<GroupDefiningVTwice>>, <<GroupNamingProject>>,
   <<GroupDefiningV, GroupNamingProject>>}

\* getTargetFrameworksFromProjectFile: property groups with TargetFrameworks
\* values of at most MaxFrameworksLen characters, plain or as the object an
\* element with attributes decodes to
FrameworksChars == {"a", "b", ";"}
FrameworkA == Str(<<"a">>)
FrameworkB == Str(<<"b">>)
VersionV4 == Str(<<"v", "4">>)
NetFrameworkV4 == Str(NetFrameworkPrefix \o VersionV4.string)
\* <TargetFrameworks Condition="..">a;b</TargetFrameworks>
WithAttributes(text) == ("_" :> text) @@ ("$" :> [Condition |-> True])
TargetFrameworksValues ==
  {Str(s) : s \in SeqsOf(FrameworksChars, 1, MaxFrameworksLen)}
TargetFrameworksLists ==
  {<<v>> : v \in TargetFrameworksValues}
  \cup {<<WithAttributes(v)>> : v \in TargetFrameworksValues}
  \cup {<<v, Str(<<"b", ";", "a">>)>> : v \in TargetFrameworksValues}
  \cup {<<"$" :> [Condition |-> True]>>}
FrameworkGroups ==
  {Opt(TargetFrameworksKey, plural) @@ Opt(TargetFrameworkVersionKey, version)
     @@ Opt(TargetFrameworkKey, singular) :
     plural \in {Undefined} \cup {Arr(l) : l \in TargetFrameworksLists},
     version \in {Undefined, Arr(<<VersionV4>>)},
     singular \in {Undefined, Arr(<<FrameworkA>>), Arr(<<NetFrameworkV4>>),
                   Arr(<<FrameworkB, FrameworkA>>)}}
  \ {EmptyTag}
FrameworkProjectFiles ==
  {[Other |-> EmptyTag], ProjectFile(<<>>, <<>>), ProjectFile(<<EmptyTag>>, <<>>),
   ProjectFile(<<GroupDefiningV>>, <<>>)}
  \cup {ProjectFile(before \o <<g>> \o after, <<>>) :
          before \in {<<>>, <<GroupDefiningV>>, <<EmptyTag>>},
          g \in FrameworkGroups,
          after \in {<<>>, <<TargetFrameworkKey :> Arr(<<FrameworkB>>)>>}}

---------------------------------------------------------------------------
(* The calls *)

Start ==
  /\ pc = "start"
  /\ depTree = Undefined
  /\ packageReferenceDeps = Undefined
  /\ referenceIncludeDeps = Undefined
  /\ returned = Undefined
  /\ depArg = Undefined
  /\ threw = FALSE

InitProjectFile ==
  /\ dialect = "projectFile"
  /\ \/ /\ manifestFile \in VersionedProjectFiles
        /\ includeDev = FALSE
        /\ propsMap \in {NoProps, PropsDefiningV}
     \/ /\ manifestFile \in DevProjectFiles
        /\ includeDev \in BOOLEAN
        /\ propsMap = NoProps
     \/ /\ manifestFile \in SkippedProjectFiles
        /\ includeDev = FALSE
        /\ propsMap = NoProps
     \/ /\ manifestFile \in ConditionalProjectFiles
        /\ includeDev = FALSE
        /\ propsMap = NoProps
     \/ /\ manifestFile \in EmptyProjectFiles
        /\ includeDev \in BOOLEAN
        /\ propsMap \in {NoProps, PropsDefiningV}

InitProjectJson ==
  /\ dialect = "projectJson"
  /\ manifestFile \in ProjectJsonManifests
  /\ includeDev \in BOOLEAN
  /\ propsMap = NoProps

InitPackagesConfig ==
  /\ dialect = "packagesConfig"
  /\ manifestFile \in PackagesConfigManifests
  /\ includeDev \in BOOLEAN
  /\ propsMap = NoProps

Init ==
  /\ Start
  /\ InitProjectFile \/ InitProjectJson \/ InitPackagesConfig

Return(tree) ==
  /\ threw' = IsThrown(tree)
  /\ depTree' = IF IsThrown(tree) THEN Undefined ELSE tree
  /\ pc' = "done"

GetDependencyTreeFromProjectJson ==
  /\ pc = "start"
  /\ dialect = "projectJson"
  /\ Return(getDependencyTreeFromProjectJson(manifestFile, includeDev))
  /\ UNCHANGED <<dialect, manifestFile, includeDev, propsMap, returned, depArg,
                 packageReferenceDeps, referenceIncludeDeps>>

GetDependencyTreeFromPackagesConfig ==
  /\ pc = "start"
  /\ dialect = "packagesConfig"
  /\ Return(getDependencyTreeFromPackagesConfig(manifestFile, includeDev))
  /\ UNCHANGED <<dialect, manifestFile, includeDev, propsMap, returned, depArg,
                 packageReferenceDeps, referenceIncludeDeps>>

GetDependencyTreeFromProjectFile ==
  /\ pc = "start"
  /\ dialect = "projectFile"
  /\ LET call == getDependencyTreeFromProjectFile(manifestFile, includeDev, propsMap)
     IN /\ threw' = call.threw
        /\ packageReferenceDeps' = call.packageReferenceDeps
        /\ referenceIncludeDeps' = call.referenceIncludeDeps
        /\ depTree' = call.depTree
  /\ pc' = "done"
  /\ UNCHANGED <<dialect, manifestFile, includeDev, propsMap, returned, depArg>>

Next ==
  \/ GetDependencyTreeFromProjectJson
  \/ GetDependencyTreeFromPackagesConfig
  \/ GetDependencyTreeFromProjectFile

Spec == Init /\ [][Next]_vars

InitVersion ==
  /\ pc = "start"
  /\ depTree = Undefined
  /\ packageReferenceDeps = Undefined
  /\ referenceIncludeDeps = Undefined
  /\ returned = Undefined
  /\ threw = FALSE
  /\ dialect = "version"
  /\ depArg \in VersionDeps
  /\ manifestFile \in {ProjectFile(pg, <<>>) : pg \in VersionPropertyGroups}
  /\ propsMap \in {NoProps, PropsDefiningV}
  /\ includeDev = FALSE

ExtractDependencyVersion ==
  /\ pc = "start"
  /\ dialect = "version"
  /\ returned' = extractDependencyVersion(depArg, manifestFile, propsMap)
  /\ pc' = "done"
  /\ UNCHANGED <<dialect, manifestFile, includeDev, propsMap, depArg, depTree,
                 packageReferenceDeps, referenceIncludeDeps, threw>>

SpecVersion == InitVersion /\ [][ExtractDependencyVersion]_vars

InitFrameworks ==
  /\ pc = "start"
  /\ depTree = Undefined
  /\ packageReferenceDeps = Undefined
  /\ referenceIncludeDeps = Undefined
  /\ returned = Undefined
  /\ depArg = Undefined
  /\ threw = FALSE
  /\ dialect = "frameworks"
  /\ manifestFile \in FrameworkProjectFiles
  /\ propsMap = NoProps
  /\ includeDev = FALSE

GetTargetFrameworksFromProjectFile ==
  /\ pc = "start"
  /\ dialect = "frameworks"
  /\ LET result == getTargetFrameworksFromProjectFile(manifestFile)
     IN /\ threw' = IsThrown(result)
        /\ returned' = IF IsThrown(result) THEN Undefined ELSE result
  /\ pc' = "done"
  /\ UNCHANGED <<dialect, manifestFile, includeDev, propsMap, depArg, depTree,
                 packageReferenceDeps, referenceIncludeDeps>>

SpecFrameworks == InitFrameworks /\ [][GetTargetFrameworksFromProjectFile]_vars

---------------------------------------------------------------------------
(* The declarations of a project file, read off its elements, and what    *)
(* each of them asks for.  The Include strings and the versions of the    *)
(* project files above are interpreted by table, not by the extraction.   *)

InSeq(x, s) == \E i \in DOMAIN s : s[i] = x

RECURSIVE Flatten(_)
Flatten(seqs) ==
  IF Len(seqs) = 0 THEN <<>> ELSE Head(seqs) \o Flatten(Tail(seqs))

RECURSIVE Keep(_, _, _)
\* the elements of s at the indices in keep, from index i on
Keep(s, keep, i) ==
  IF i > Len(s) THEN <<>>
  ELSE (IF i \in keep THEN <<s[i]>> ELSE <<>>) \o Keep(s, keep, i + 1)

Where(s, Test(_)) == Keep(s, {i \in DOMAIN s : Test(s[i])}, 1)
FirstOccurrences(s) ==
  Keep(s, {i \in DOMAIN s : \A j \in 1..(i - 1) : s[j] # s[i]}, 1)
\* the last element of s that passes the test
LastWhere(s, Test(_)) ==
  s[CHOOSE i \in DOMAIN s :
      Test(s[i]) /\ \A j \in (i + 1)..Len(s) : ~Test(s[j])]

Returned == pc = "done" /\ ~threw
ProjectFileReturned == Returned /\ dialect = "projectFile"
HasUnknownVersions(result) == "dependenciesWithUnknownVersions" \in DOMAIN result

\* whether a property group of the manifest defines V (as 3.0, in the
\* project files of the tree builders)
ManifestDefinesV ==
  \E i \in DOMAIN PropertyGroupsOf(manifestFile) :
     PropertyV \in DOMAIN PropertyGroupsOf(manifestFile)[i]

\* what a declared version resolves to
ResolvedVersion(declared) ==
  IF declared = VersionOfV
  THEN IF ManifestDefinesV THEN Version30
       ELSE IF propsMap = PropsDefiningV THEN Version40
       ELSE Undefined
  ELSE declared

DeclaredVersion(item) ==
  IF "$" \in DOMAIN item /\ "Version" \in DOMAIN item["$"] THEN item["$"].Version
  ELSE IF "Version" \in DOMAIN item THEN item.Version.array[1]
  ELSE Undefined

PackageReferenceDeclaration(item, g) ==
  [name |-> IF "$" \in DOMAIN item /\ "Include" \in DOMAIN item["$"]
            THEN item["$"].Include ELSE Undefined,
   declared |-> DeclaredVersion(item),
   version |-> ResolvedVersion(DeclaredVersion(item)),
   dev |-> "$" \in DOMAIN item /\ "developmentDependency" \in DOMAIN item["$"],
   group |-> g]

\* every PackageReference item of every item group, in document order
PackageReferenceDeclarations ==
  LET groups == ManifestItemGroups(manifestFile)
      ItemsOf(g) == IF "PackageReference" \in DOMAIN groups[g]
                    THEN groups[g].PackageReference.array ELSE <<>>
  IN Flatten([g \in DOMAIN groups |->
                [i \in DOMAIN ItemsOf(g) |->
                   PackageReferenceDeclaration(ItemsOf(g)[i], g)]])

ReferenceDeclaration(item, g) ==
  LET include == IF "Include" \in DOMAIN item["$"] THEN item["$"].Include
                 ELSE Undefined
      declared == CASE include = IncludeXVersion20 -> Version20
                    [] include = IncludeZVersionOfV -> VersionOfV
                    [] include = IncludeNoName -> Version10
                    [] OTHER -> Undefined
  IN [name |-> CASE include = IncludeXVersion20 -> NameX
                 [] include = IncludeY -> NameY
                 [] include = IncludeZVersionOfV -> NameZ
                 [] OTHER -> Undefined,
      declared |-> declared,
      version |-> ResolvedVersion(declared),
      dev |-> FALSE,
      group |-> g]

\* the Reference items of the first item group that has any
ReferenceDeclarations ==
  LET groups == ManifestItemGroups(manifestFile)
      with == {g \in DOMAIN groups : "Reference" \in DOMAIN groups[g]}
      first == CHOOSE g \in with : \A h \in with : g <= h
  IN IF with = {} THEN <<>>
     ELSE [i \in DOMAIN groups[first].Reference.array |->
             ReferenceDeclaration(groups[first].Reference.array[i], first)]

Named(d) == ~IsUndefined(d.name)
\* a declaration the extraction processes to the end
Processed(d) == Named(d) /\ (d.dev => includeDev)
Resolved(d) == Processed(d) /\ ~IsUndefined(d.version)
Unresolved(d) == Processed(d) /\ IsUndefined(d.version)
\* a reference to a property that nothing defines
Unresolvable(d) == Unresolved(d) /\ d.declared = VersionOfV
NamesOf(declarations) == [i \in DOMAIN declarations |-> declarations[i].name.string]

---------------------------------------------------------------------------
(* getDependencyTreeFromProjectFile: the merged root *)

\* C3: the keys of the merged dependencies are the names emitted by the
\* Reference-Include extraction, in declaration order, followed by the
\* names only the PackageReference extraction emitted, in declaration
\* order; a name both emitted has the PackageReference node (version,
\* depType, targetFrameworks), a name only Reference-Include emitted keeps
\* the Reference node.
C3_MergedDependencies ==
  ProjectFileReturned =>
    LET references == Where(ReferenceDeclarations, Resolved)
        packageReferences == Where(PackageReferenceDeclarations, Resolved)
        merged == depTree.dependencies
        fromPackageReference == packageReferenceDeps.dependencies
        fromReference == referenceIncludeDeps.dependencies
    IN /\ MapKeys(fromReference) = FirstOccurrences(NamesOf(references))
       /\ MapKeys(fromPackageReference) = FirstOccurrences(NamesOf(packageReferences))
       /\ MapKeys(merged) =
            FirstOccurrences(NamesOf(references) \o NamesOf(packageReferences))
       /\ \A i \in DOMAIN merged :
            LET SameName(d) == d.name.string = merged[i].key
                node == merged[i].value
            IN IF InSeq(merged[i].key, NamesOf(packageReferences))
               THEN LET last == LastWhere(packageReferences, SameName)
                    IN /\ node = MapGet(fromPackageReference, merged[i].key)
                       /\ node.version = last.version
                       /\ node.depType = DepTypeOf(last.dev)
               ELSE LET last == LastWhere(references, SameName)
                    IN /\ node = MapGet(fromReference, merged[i].key)
                       /\ node.version = last.version
                       /\ node.depType = "prod"

\* C3 witness: X is emitted by both styles with different versions, a
\* second name only by Reference-Include and the merged map holds X first
C3_Witness ==
  /\ ProjectFileReturned
  /\ MapHas(referenceIncludeDeps.dependencies, NameX.string)
  /\ MapHas(packageReferenceDeps.dependencies, NameX.string)
  /\ MapGet(referenceIncludeDeps.dependencies, NameX.string).version = Version20
  /\ MapGet(depTree.dependencies, NameX.string).version = Version10
  /\ MapKeys(depTree.dependencies) = <<NameX.string, NameY.string>>
  /\ MapHas(packageReferenceDeps.dependencies, NameY.string)

\* C4: the root's dependenciesWithUnknownVersions is the PackageReference
\* extraction's list whenever that extraction has one, the Reference-Include
\* extraction's list only when the PackageReference one is absent, and
\* absent when both are
C4_PackageReferenceListWins ==
  ProjectFileReturned =>
    IF HasUnknownVersions(packageReferenceDeps)
    THEN /\ HasUnknownVersions(depTree)
         /\ depTree.dependenciesWithUnknownVersions =
              packageReferenceDeps.dependenciesWithUnknownVersions
    ELSE IF HasUnknownVersions(referenceIncludeDeps)
    THEN /\ HasUnknownVersions(depTree)
         /\ depTree.dependenciesWithUnknownVersions =
              referenceIncludeDeps.dependenciesWithUnknownVersions
    ELSE ~HasUnknownVersions(depTree)

\* C2: no name is both a key of the root's dependencies and an element of
\* its dependenciesWithUnknownVersions
C2_NoNameInBoth ==
  ProjectFileReturned =>
    \A i \in DOMAIN depTree.dependencies :
       ~(/\ HasUnknownVersions(depTree)
         /\ InSeq(Str(depTree.dependencies[i].key),
                  depTree.dependenciesWithUnknownVersions))

\* C6: the call returns, and every processed declaration whose version is
\* a reference to a property nothing defines has its name in the root's
\* dependenciesWithUnknownVersions and contributes no entry to dependencies
C6_UnresolvedAreListed ==
  (pc = "done" /\ dialect = "projectFile"
     /\ manifestFile \in VersionedProjectFiles \cup DevProjectFiles) =>
    /\ ~threw
    /\ LET unresolved ==
             Where(ReferenceDeclarations \o PackageReferenceDeclarations, Unresolvable)
           resolved ==
             Where(ReferenceDeclarations \o PackageReferenceDeclarations, Resolved)
       IN /\ \A i \in DOMAIN unresolved :
               /\ HasUnknownVersions(depTree)
               /\ InSeq(unresolved[i].name, depTree.dependenciesWithUnknownVersions)
          /\ \A i \in DOMAIN depTree.dependencies :
               InSeq(depTree.dependencies[i].key, NamesOf(resolved))

\* every declaration of the manifest, in the order the builder of its
\* dialect meets them (Reference items before PackageReference items)
Declarations ==
  CASE dialect = "projectJson" ->
         IF "dependencies" \in DOMAIN manifestFile
         THEN [i \in DOMAIN manifestFile.dependencies.entries |->
                 LET entry == manifestFile.dependencies.entries[i]
                 IN [name |-> Str(entry.key),
                     version |-> Version10,
                     dev |-> "type" \in DOMAIN entry.value
                               /\ entry.value.type = BuildType]]
         ELSE <<>>
    [] dialect = "packagesConfig" ->
         IF "packages" \in DOMAIN manifestFile
              /\ "package" \in DOMAIN manifestFile.packages
         THEN [i \in DOMAIN manifestFile.packages.package.array |->
                 LET attributes == manifestFile.packages.package.array[i]["$"]
                 IN [name |-> attributes.id,
                     version |-> attributes.version,
                     dev |-> "developmentDependency" \in DOMAIN attributes]]
         ELSE <<>>
    [] OTHER -> ReferenceDeclarations \o PackageReferenceDeclarations

Flagged(d) == Named(d) /\ d.dev

C9_NothingToExtract ==
  (pc = "done" /\ Declarations = <<>>) =>
    /\ ~threw
    /\ depTree.dependencies = <<>>
    /\ ~depTree.hasDevDependencies
    /\ ~HasUnknownVersions(depTree)

\* C10: a project file with PackageReference or Reference items without a
\* name (no Include, no attributes, an empty first Include segment) is
\* read without failure; the items add nothing to the root and the named
\* items around them are processed as usual
C10_ItemsWithoutIncludeSkipped ==
  (/\ pc = "done"
   /\ dialect = "projectFile"
   /\ \E i \in DOMAIN Declarations : ~Named(Declarations[i])) =>
    /\ ~threw
    /\ depTree.hasDevDependencies = (\E i \in DOMAIN Declarations :
                                        Flagged(Declarations[i]))
    /\ MapKeys(depTree.dependencies) =
         FirstOccurrences(NamesOf(Where(Declarations, Resolved)))
    /\ HasUnknownVersions(depTree) =>
         \A i \in DOMAIN depTree.dependenciesWithUnknownVersions :
            \E j \in DOMAIN Declarations :
               /\ Unresolved(Declarations[j])
               /\ Declarations[j].name = depTree.dependenciesWithUnknownVersions[i]

---------------------------------------------------------------------------
(* Conditional target frameworks *)

ConditionOf(group) ==
  IF "$" \in DOMAIN group /\ "Condition" \in DOMAIN group["$"]
  THEN group["$"].Condition ELSE Undefined

\* the monikers a Condition asks for: those of its clauses that compare
\* TargetFramework with the pattern's spacing, in order
ConditionMonikers(condition) ==
  IF IsUndefined(condition) \/ condition = EmptyString THEN <<>>
  ELSE LET clauses == CHOOSE c \in ClauseLists : Str(ConditionText(c)) = condition
           IsSpaced(clause) == clause.kind = "spaced"
           spaced == Where(clauses, IsSpaced)
       IN [i \in DOMAIN spaced |-> Str(spaced[i].moniker)]

\* C7: a node emitted from a PackageReference item group carries as
\* targetFrameworks the monikers of all the TargetFramework comparisons of
\* the group's Condition, one per match, in order, duplicates kept; without
\* a Condition, or when nothing in it matches, the node has no
\* targetFrameworks field
C7_ConditionalFrameworks ==
  ProjectFileReturned =>
    LET packageReferences == Where(PackageReferenceDeclarations, Resolved)
        emitted == packageReferenceDeps.dependencies
    IN \A i \in DOMAIN emitted :
         LET SameName(d) == d.name.string = emitted[i].key
             group == ManifestItemGroups(manifestFile)[
                        LastWhere(packageReferences, SameName).group]
             monikers == ConditionMonikers(ConditionOf(group))
             node == emitted[i].value
         IN /\ IF monikers = <<>> THEN "targetFrameworks" \notin DOMAIN node
               ELSE /\ "targetFrameworks" \in DOMAIN node
                    /\ node.targetFrameworks = monikers
            /\ MapGet(depTree.dependencies, emitted[i].key) = node

\* C7 witness: one node with the same moniker twice, of a Condition with
\* two matches, beside a node without targetFrameworks, of a Condition
\* without a match
C7_Witness ==
  /\ ProjectFileReturned
  /\ MapKeys(depTree.dependencies) = <<NameX.string, NameY.string>>
  /\ "targetFrameworks" \in DOMAIN MapGet(depTree.dependencies, NameX.string)
  /\ MapGet(depTree.dependencies, NameX.string).targetFrameworks =
       <<Str(Net472), Str(Net472)>>
  /\ "targetFrameworks" \notin DOMAIN MapGet(depTree.dependencies, NameY.string)
  /\ Truthy(ConditionOf(ManifestItemGroups(manifestFile)[2]))

---------------------------------------------------------------------------
(* extractDependencyVersion *)

\* the version text the dep declares: its Version attribute, else its
\* Version child or field
DeclaredText ==
  IF "$" \in DOMAIN depArg /\ "Version" \in DOMAIN depArg["$"]
       /\ depArg["$"].Version # EmptyString
  THEN depArg["$"].Version
  ELSE IF "Version" \in DOMAIN depArg
  THEN IF IsArray(depArg.Version) THEN depArg.Version.array[1] ELSE depArg.Version
  ELSE Undefined

\* s starts with $( name )
StartsWithReference(s) ==
  Len(s) >= 3 /\ s[1] = "$" /\ s[2] = "(" /\ \E j \in 3..Len(s) : s[j] = ")"

\* the name between $( and the first )
ReferencedName(s) ==
  LET close == CHOOSE j \in 3..Len(s) :
                 s[j] = ")" /\ \A k \in 3..(j - 1) : s[k] # ")"
  IN SubSeq(s, 3, close - 1)

\* C5: a declared version that starts with $(Name) is answered with the
\* value of Name in the last property group of the manifest that defines
\* it, else with its value in the external table, else with null; any other
\* declared version is returned as it is
C5_VersionPrecedence ==
  (pc = "done" /\ dialect = "version") =>
    IF IsString(DeclaredText) /\ StartsWithReference(DeclaredText.string)
    THEN LET name == ReferencedName(DeclaredText.string)
             groups == PropertyGroupsOf(manifestFile)
             defining == {i \in DOMAIN groups : name \in DOMAIN groups[i]}
             last == CHOOSE i \in defining : \A j \in defining : j <= i
         IN IF defining # {} THEN returned = groups[last][name].array[1]
            ELSE IF name \in DOMAIN propsMap THEN returned = propsMap[name]
            ELSE returned = Null
    ELSE returned = DeclaredText

\* C5 witness: V is defined as 3.0 and then as 5.0 in the manifest and as
\* 4.0 in the external table, and $(V) is answered with 5.0
C5_Witness ==
  /\ pc = "done"
  /\ dialect = "version"
  /\ DeclaredText = VersionOfV
  /\ PropertyGroupsOf(manifestFile) = <<GroupDefiningV, GroupRedefiningV>>
  /\ propsMap = PropsDefiningV
  /\ returned = Version50

---------------------------------------------------------------------------
(* getTargetFrameworksFromProjectFile *)

FrameworkKeys == {TargetFrameworkKey, TargetFrameworksKey, TargetFrameworkVersionKey}

\* the non-empty segments of s between its semicolons
Segments(s) ==
  LET starts == {i \in DOMAIN s : s[i] # ";" /\ (i = 1 \/ s[i - 1] = ";")}
      EndOf(i) == CHOOSE j \in i..Len(s) :
                    /\ \A k \in i..j : s[k] # ";"
                    /\ (j = Len(s) \/ s[j + 1] = ";")
      ordered == Keep([i \in DOMAIN s |-> i], starts, 1)
  IN [n \in DOMAIN ordered |-> Str(SubSeq(s, ordered[n], EndOf(ordered[n])))]

\* the text of a TargetFrameworks value, plain or with attributes
FrameworksText(item) ==
  IF IsString(item) THEN item.string
  ELSE IF "_" \in DOMAIN item THEN item["_"].string
  ELSE <<>>

\* what the first group with a framework property asks for
ExpectedFrameworks ==
  LET groups == PropertyGroupsOf(manifestFile)
      with == {i \in DOMAIN groups : DOMAIN groups[i] \cap FrameworkKeys # {}}
      group == groups[CHOOSE i \in with : \A j \in with : i <= j]
      plural == IF TargetFrameworksKey \in DOMAIN group
                THEN Flatten([i \in DOMAIN group[TargetFrameworksKey].array |->
                       Segments(FrameworksText(group[TargetFrameworksKey].array[i]))])
                ELSE <<>>
      version == IF TargetFrameworkVersionKey \in DOMAIN group
                 THEN <<Str(NetFrameworkPrefix
                          \o group[TargetFrameworkVersionKey].array[1].string)>>
                 ELSE <<>>
      singular == IF TargetFrameworkKey \in DOMAIN group
                  THEN group[TargetFrameworkKey].array ELSE <<>>
  IN IF with = {} THEN <<>>
     ELSE FirstOccurrences(plural \o version \o singular)

\* C8: the call returns the frameworks of the first property group that
\* has TargetFramework, TargetFrameworks or TargetFrameworkVersion, without
\* duplicates, in first-occurrence order over the segments of the
\* TargetFrameworks values, the .NETFramework,Version= string and the
\* TargetFramework values; the empty sequence when no group has one
C8_FirstGroupFrameworks ==
  (pc = "done" /\ dialect = "frameworks") =>
    /\ ~threw
    /\ returned = Arr(ExpectedFrameworks)

=============================================================================
